---- MODULE Spec2Model ----
(***************************************************************************)
(* Model of ocypus-control.py: the Ocypus Iota A40 LCD driver.             *)
(*                                                                         *)
(* The process is single threaded.  Its control position is pc; the       *)
(* SIGINT/SIGTERM handler installed by main() (sys.exit(0)) raises         *)
(* SystemExit at whatever position the main thread is in.  Temperatures    *)
(* are tenths of a degree Celsius, clock values are whole seconds.         *)
(***************************************************************************)
EXTENDS Integers, Sequences, FiniteSets, TLC

\* ---------------------------------------------------------------- constants
REPORT_ID == 7
REPORT_LENGTH == 65
SLOT_TENS == 5
SLOT_ONES == 6
SLOT_UNIT == 7
KEEPALIVE_INTERVAL == 2
UNIT_FLAG_CELSIUS == 0
UNIT_FLAG_FAHRENHEIT == 1
DEFAULT_SENSOR_SUBSTR == <<"k", "t">>

\* ------------------------------------------------------------------- bounds
MaxDevices == 2
MaxTicks == 3
MaxSignals == 2
MaxSensors == 2
TempRange == 1250

\* Refresh rates (seconds) the `on` command is run with.
Rates == {1, 3}
\* Sensor names (and requested substrings); "K" and "T" are upper case.
SensorNames ==
  {<<"k">>, <<"K">>, <<"k", "t">>, <<"K", "T">>, <<"t", "k">>, <<"c", "k", "t">>}
\* Readings (tenths of a degree Celsius) the sensor returns in the loop.
LoopTemps == {-300, 25, 374, 455, 995}

\* ------------------------------------------------------------ pure helpers
\* str.lower() on one character.
LowerChar(c) == IF c = "K" THEN "k" ELSE IF c = "T" THEN "t" ELSE c

\* str.lower()
Lower(s) == [i \in 1..Len(s) |-> LowerChar(s[i])]

\* Python's `a in b` on strings.
Contains(a, b) ==
  \E k \in 0..(Len(b) - Len(a)) : SubSeq(b, k + 1, k + Len(a)) = a

\* Python's round() of the rational n/d (d > 0): to nearest, ties to even.
PyRound(n, d) ==
  LET q == n \div d
      r == n % d
  IN  IF 2 * r < d THEN q
      ELSE IF 2 * r > d THEN q + 1
      ELSE IF q % 2 = 0 THEN q ELSE q + 1

\* int(round(display_temp)) after the unit conversion, for a reading of
\* t10 tenths of a degree Celsius: t10/10 for 'c', t10/10*9/5+32 for 'f'.
RoundedDisplay(t10, u) ==
  IF u = "f" THEN PyRound(9 * t10 + 1600, 50) ELSE PyRound(t10, 10)

\* The unit flag byte.
UnitFlag(u) == IF u = "f" THEN UNIT_FLAG_FAHRENHEIT ELSE UNIT_FLAG_CELSIUS

Max(a, b) == IF a > b THEN a ELSE b
Min(a, b) == IF a < b THEN a ELSE b

\* Mutant of Clamp: the clamp is dropped.
ClampNone(v) == v

\* max(0, min(99, v))
Clamp(v) == Max(0, Min(99, v))

\* Mutant of BlankReport: one byte short.
BlankReportShort ==
  [k \in 1..(REPORT_LENGTH - 1) |-> IF k = 1 THEN REPORT_ID ELSE 0]

\* [REPORT_ID] + [0] * (REPORT_LENGTH - 1); offset k is element k + 1.
BlankReport == [k \in 1..REPORT_LENGTH |-> IF k = 1 THEN REPORT_ID ELSE 0]

\* Byte of a report at a (0-based) offset.
At(report, offset) == report[offset + 1]

\* The report send_temperature builds.
TemperatureReport(t10, u) ==
  LET display_temp == Clamp(RoundedDisplay(t10, u))
      tens == display_temp \div 10
      ones == display_temp % 10
  IN  [BlankReport EXCEPT ![SLOT_TENS + 1] = tens,
                          ![SLOT_ONES + 1] = ones,
                          ![SLOT_UNIT + 1] = UnitFlag(u)]

\* ------------------------------------------------------- sensor selection
\* find_sensor_by_substring's "no match" result (None).
NoSensor == [found |-> FALSE, name |-> <<>>, current |-> 0]

\* Mutant of SensorMatches: the comparison keeps the case.
SensorMatchesCaseSensitive(substring, sensor) ==
  Contains(substring, sensor.name) /\ sensor.readings # <<>>

\* substring.lower() in sensor_name.lower() and sensor_list
SensorMatches(substring, sensor) ==
  Contains(Lower(substring), Lower(sensor.name)) /\ sensor.readings # <<>>

RECURSIVE FindFrom(_, _, _)
\* The for loop of find_sensor_by_substring from the i-th item on.
FindFrom(sensor_map, substring, i) ==
  IF i > Len(sensor_map) THEN NoSensor
  ELSE IF SensorMatches(substring, sensor_map[i])
       THEN [found |-> TRUE, name |-> sensor_map[i].name,
             current |-> sensor_map[i].readings[1]]
       ELSE FindFrom(sensor_map, substring, i + 1)

find_sensor_by_substring(sensor_map, substring) == FindFrom(sensor_map, substring, 1)

\* One item of psutil.sensors_temperatures(): a name and its readings.
SensorItems == [name : SensorNames, readings : {<<>>, <<455>>}]

\* Sensor mappings (insertion ordered, keys distinct) of up to MaxSensors items.
SensorMaps ==
  UNION {{m \in [1..n -> SensorItems] :
            \A i, j \in 1..n : i # j => m[i].name # m[j].name} : n \in 0..MaxSensors}

\* What get_temperature_sensors() returns on a tick of the loop: nothing (no
\* sensors, or psutil raised), the wanted sensor with a reading, another
\* sensor only, or the wanted sensor with an empty list of readings.
LoopSensorMaps ==
  {<<>>}
    \cup {<<[name |-> <<"K", "T">>, readings |-> <<t>>]>> : t \in LoopTemps}
    \cup {<<[name |-> <<"t", "k">>, readings |-> <<455>>]>>}
    \cup {<<[name |-> <<"k", "t">>, readings |-> <<>>]>>}

\* ------------------------------------------------------------------- state
VARIABLES
  pc,               \* control position of the main thread
  cmd,              \* args.command: "on" or "off"
  unit,             \* args.unit
  refresh_rate,     \* args.rate
  sensor_substring, \* args.sensor
  devices,          \* hid.enumerate(VID, PID)
  idx,              \* position of open()'s for loop in devices
  device,           \* self.device: 0 is None, i the handle of devices[i]
  interface_number, \* self.interface_number: -1 is None
  open_result,      \* what open() returned: "none" (not yet), "true", "false"
  hstate,           \* each HID handle: "unopened", "open" or "closed"
  close_count,      \* times each opened handle was closed
  probe_ok,         \* candidates whose probe write was accepted
  now,              \* time.time()
  last_keepalive,   \* run_display_loop's last_keepalive
  ticks,            \* iterations of the loop begun
  sensors,          \* the mapping read on this tick
  sensor_data,      \* find_sensor_by_substring's result on this tick
  success,          \* send_temperature's result on this tick
  last_report,      \* the last report handed to send_feature_report
  last_write,       \* its kind: "none", "probe", "temp", "keepalive", "blank"
  sent_temp,        \* temp_celsius of the last send_temperature call (tenths)
  sent_unit,        \* unit of the last send_temperature call
  last_sent_value,  \* display value of the last send_temperature call, -1: none
  last_send_time,   \* when it was made
  prev_sent_value,  \* display value of the send_temperature call before it
  prev_send_time,   \* when that one was made
  n_temp,           \* send_temperature writes so far
  n_blank,          \* blank_display writes so far
  temp_after_blank, \* a send_temperature write followed a blank_display write
  write_failed,     \* a send_temperature write of the loop has failed
  sensor_missing,   \* a tick of the loop found no sensor
  signals,          \* SIGINT/SIGTERM delivered so far
  sig_in_loop,      \* one of them was delivered while the loop was streaming
  unwinding,        \* the SystemExit propagating: "none", "body", "close"
  exit_code         \* the process's exit status, -1 while it runs

vars ==
  <<pc, cmd, unit, refresh_rate, sensor_substring, devices, idx, device,
    interface_number, open_result, hstate, close_count, probe_ok, now,
    last_keepalive, ticks, sensors, sensor_data, success, last_report,
    last_write, sent_temp, sent_unit, last_sent_value, last_send_time,
    prev_sent_value, prev_send_time, n_temp, n_blank, temp_after_blank,
    write_failed, sensor_missing, signals, sig_in_loop, unwinding, exit_code>>

\* What hid.enumerate can return: up to MaxDevices interfaces, each with or
\* without an 'interface_number' (interface i - 1 for the i-th).
DeviceLists ==
  UNION {{[i \in 1..n |-> [has_interface |-> h[i], interface_number |-> i - 1]] :
            h \in [1..n -> BOOLEAN]} : n \in 0..MaxDevices}

\* The state shared by every specification before the command runs.
Fresh ==
  /\ idx = 0
  /\ device = 0
  /\ interface_number = -1
  /\ open_result = "none"
  /\ hstate = [i \in 1..Len(devices) |-> "unopened"]
  /\ close_count = [i \in 1..Len(devices) |-> 0]
  /\ probe_ok = {}
  /\ now = 0
  /\ last_keepalive = 0
  /\ ticks = 0
  /\ sensor_data = NoSensor
  /\ success = FALSE
  /\ last_report = <<>>
  /\ last_write = "none"
  /\ last_sent_value = -1
  /\ last_send_time = 0
  /\ prev_sent_value = -1
  /\ prev_send_time = 0
  /\ n_temp = 0
  /\ n_blank = 0
  /\ temp_after_blank = FALSE
  /\ write_failed = FALSE
  /\ sensor_missing = FALSE
  /\ signals = 0
  /\ sig_in_loop = FALSE
  /\ unwinding = "none"
  /\ exit_code = -1

\* main() has parsed an `on` or `off` command and installed the handlers;
\* the with statement is about to call __enter__, which calls open().
Init ==
  /\ pc = "open_enumerate"
  /\ cmd \in {"on", "off"}
  /\ unit \in {"c", "f"}
  /\ refresh_rate \in Rates
  /\ sensor_substring = DEFAULT_SENSOR_SUBSTR
  /\ devices \in DeviceLists
  /\ sensors = <<>>
  /\ sent_temp = 0
  /\ sent_unit = "c"
  /\ Fresh

\* ------------------------------------------------------- variable groups
cfgVars == <<cmd, unit, refresh_rate, sensor_substring, devices>>
sessionVars == <<device, interface_number>>
handleVars == <<hstate, close_count>>
loopVars == <<now, last_keepalive, ticks, sensors, sensor_data, success>>
writeVars == <<last_report, last_write>>
sendVars ==
  <<sent_temp, sent_unit, last_sent_value, last_send_time, prev_sent_value,
    prev_send_time, n_temp, temp_after_blank>>
faultVars == <<write_failed, sensor_missing>>
sigVars == <<signals, sig_in_loop, unwinding>>

\* ------------------------------------------------- OcypusController.open
\* hid's device.close(): an open handle is released; on a device that is not
\* open it does nothing.
CloseHandle(h, i) == IF h[i] = "open" THEN [h EXCEPT ![i] = "closed"] ELSE h

\* The closes counted: one more for a handle that was open.
CountClose(c, h, i) == IF h[i] = "open" THEN [c EXCEPT ![i] = c[i] + 1] ELSE c

\* Mutant of RejectedHandles: the rejected candidate is left open.
RejectedHandlesLeak(h, i) == h

\* The handles after open()'s except clause has dealt with candidate i.
RejectedHandles(h, i) == CloseHandle(h, i)

\* devices = hid.enumerate(VID, PID); if not devices: return False
OpenEnumerate ==
  /\ pc = "open_enumerate"
  /\ IF devices = <<>>
       THEN /\ open_result' = "false"
            /\ pc' = "enter_return"
            /\ idx' = idx
       ELSE /\ idx' = 1
            /\ pc' = "open_next"
            /\ open_result' = open_result
  /\ UNCHANGED <<cfgVars, sessionVars, handleVars, probe_ok, loopVars, writeVars,
                 sendVars, faultVars, sigVars, n_blank, exit_code>>

\* The head of the for loop: the next candidate, skipped when it has no
\* interface_number; after the last one, return False.
OpenNext ==
  /\ pc = "open_next"
  /\ IF idx > Len(devices)
       THEN /\ open_result' = "false"
            /\ pc' = "enter_return"
            /\ idx' = idx
       ELSE IF ~devices[idx].has_interface
       THEN /\ idx' = idx + 1
            /\ pc' = "open_next"
            /\ open_result' = open_result
       ELSE /\ pc' = "open_path"
            /\ UNCHANGED <<idx, open_result>>
  /\ UNCHANGED <<cfgVars, sessionVars, handleVars, probe_ok, loopVars, writeVars,
                 sendVars, faultVars, sigVars, n_blank, exit_code>>

\* device = hid.device(); device.open_path(...): the handle opens, or
\* open_path raises.
OpenPath ==
  /\ pc = "open_path"
  /\ \E opened \in BOOLEAN :
       IF opened
         THEN /\ hstate' = [hstate EXCEPT ![idx] = "open"]
              /\ pc' = "open_probe"
         ELSE /\ hstate' = hstate
              /\ pc' = "open_except"
  /\ UNCHANGED <<cfgVars, idx, sessionVars, open_result, close_count, probe_ok,
                 loopVars, writeVars, sendVars, faultVars, sigVars, n_blank,
                 exit_code>>

\* device.send_feature_report(test_report): accepted, or it raises.
OpenProbe ==
  /\ pc = "open_probe"
  /\ last_report' = BlankReport
  /\ last_write' = "probe"
  /\ \E accepted \in BOOLEAN :
       IF accepted
         THEN /\ probe_ok' = probe_ok \cup {idx}
              /\ pc' = "open_assign"
         ELSE /\ probe_ok' = probe_ok
              /\ pc' = "open_except"
  /\ UNCHANGED <<cfgVars, idx, sessionVars, open_result, handleVars, loopVars,
                 sendVars, faultVars, sigVars, n_blank, exit_code>>

\* self.device = device; self.interface_number = ...; return True
OpenAssign ==
  /\ pc = "open_assign"
  /\ device' = idx
  /\ interface_number' = devices[idx].interface_number
  /\ open_result' = "true"
  /\ pc' = "enter_return"
  /\ UNCHANGED <<cfgVars, idx, handleVars, probe_ok, loopVars, writeVars,
                 sendVars, faultVars, sigVars, n_blank, exit_code>>

\* except Exception as e: print(...), before the inner try.
OpenExcept ==
  /\ pc = "open_except"
  /\ pc' = "open_except_close"
  /\ UNCHANGED <<cfgVars, idx, sessionVars, open_result, handleVars, probe_ok,
                 loopVars, writeVars, sendVars, faultVars, sigVars, n_blank,
                 exit_code>>

\* try: device.close() except: pass; continue
OpenExceptClose ==
  /\ pc = "open_except_close"
  /\ hstate' = RejectedHandles(hstate, idx)
  /\ close_count' = CountClose(close_count, hstate, idx)
  /\ idx' = idx + 1
  /\ pc' = "open_next"
  /\ UNCHANGED <<cfgVars, sessionVars, open_result, probe_ok, loopVars,
                 writeVars, sendVars, faultVars, sigVars, n_blank, exit_code>>

\* __enter__: return self; then the body of the with statement begins.
EnterReturn ==
  /\ pc = "enter_return"
  /\ pc' = "with_body"
  /\ UNCHANGED <<cfgVars, idx, sessionVars, open_result, handleVars, probe_ok,
                 loopVars, writeVars, sendVars, faultVars, sigVars, n_blank,
                 exit_code>>

\* ------------------------------------------------------------------ main
\* with OcypusController() as controller: if controller.device: ...
WithBody ==
  /\ pc = "with_body"
  /\ pc' = IF device = 0 THEN "exit_call"
           ELSE IF cmd = "on" THEN "loop_init" ELSE "blank"
  /\ UNCHANGED <<cfgVars, idx, sessionVars, open_result, handleVars, probe_ok,
                 loopVars, writeVars, sendVars, faultVars, sigVars, n_blank,
                 exit_code>>

\* --------------------------------------------------------- run_display_loop
\* last_keepalive = time.time()
LoopInit ==
  /\ pc = "loop_init"
  /\ last_keepalive' = now
  /\ pc' = "tick"
  /\ UNCHANGED <<cfgVars, idx, sessionVars, open_result, handleVars, probe_ok,
                 now, ticks, sensors, sensor_data, success, writeVars, sendVars,
                 faultVars, sigVars, n_blank, exit_code>>

\* current_time - last_keepalive >= KEEPALIVE_INTERVAL
KeepaliveDue(current_time, lk) == current_time - lk >= KEEPALIVE_INTERVAL

\* Mutant of TickSends: an unchanged value is not sent again.
TickSendsOnChange(sd, current_time, lk) ==
  \/ sd.found /\ Clamp(RoundedDisplay(sd.current, unit)) # last_sent_value
  \/ ~sd.found /\ KeepaliveDue(current_time, lk)

\* Whether a tick calls send_temperature: with the reading when the sensor
\* was found, with 0 when it was not and the keep-alive is due.
TickSends(sd, current_time, lk) ==
  sd.found \/ KeepaliveDue(current_time, lk)

\* Mutant of TickNext: a failed send leaves the loop.
TickNextStopOnFailure(found, ok) ==
  IF found /\ ~ok THEN "exit_call" ELSE "sleep"

\* Mutant of TickNext: a missing sensor leaves the loop.
TickNextStopOnMissing(found, ok) ==
  IF ~found THEN "exit_call" ELSE "sleep"

\* Where a tick goes next: every branch of the try body falls through to
\* time.sleep(refresh_rate).
TickNext(found, ok) == "sleep"

\* The display value a report carries.
Decode(report) == At(report, SLOT_TENS) * 10 + At(report, SLOT_ONES)

\* One iteration of the try body up to the sleep: read the sensors, pick
\* one, send its reading (or the keep-alive 0); the write succeeds or raises
\* inside send_temperature, which then returns False.
Tick ==
  /\ pc = "tick"
  /\ ticks' = ticks + 1
  /\ \E m \in LoopSensorMaps, ok \in BOOLEAN :
       LET sd == find_sensor_by_substring(m, sensor_substring)
           t == IF sd.found THEN sd.current ELSE 0
           sends == device # 0 /\ TickSends(sd, now, last_keepalive)
           report == TemperatureReport(t, unit)
       IN  /\ sensors' = m
           /\ sensor_data' = sd
           /\ IF sends
                THEN /\ last_report' = report
                     /\ last_write' = IF sd.found THEN "temp" ELSE "keepalive"
                     /\ sent_temp' = t
                     /\ sent_unit' = unit
                     /\ prev_sent_value' = last_sent_value
                     /\ prev_send_time' = last_send_time
                     /\ last_sent_value' = Decode(report)
                     /\ last_send_time' = now
                     /\ n_temp' = n_temp + 1
                     /\ temp_after_blank' = (temp_after_blank \/ n_blank > 0)
                ELSE UNCHANGED <<writeVars, sendVars>>
           /\ success' = IF sd.found THEN sends /\ ok ELSE success
           /\ last_keepalive' =
                IF ~sd.found /\ KeepaliveDue(now, last_keepalive)
                  THEN now ELSE last_keepalive
           /\ write_failed' = (write_failed \/ (sends /\ ~ok))
           /\ sensor_missing' = (sensor_missing \/ ~sd.found)
           /\ pc' = TickNext(sd.found, ok)
  /\ UNCHANGED <<cfgVars, idx, sessionVars, open_result, handleVars, probe_ok,
                 now, sigVars, n_blank, exit_code>>

\* time.sleep(refresh_rate)
Sleep ==
  /\ pc = "sleep"
  /\ ticks < MaxTicks
  /\ now' = now + refresh_rate
  /\ pc' = "tick"
  /\ UNCHANGED <<cfgVars, idx, sessionVars, open_result, handleVars, probe_ok,
                 last_keepalive, ticks, sensors, sensor_data, success, writeVars,
                 sendVars, faultVars, sigVars, n_blank, exit_code>>

\* ------------------------------------------------------------ off command
\* success = controller.blank_display(): the write succeeds or raises inside
\* blank_display, which then returns False.
Blank ==
  /\ pc = "blank"
  /\ last_report' = BlankReport
  /\ last_write' = "blank"
  /\ n_blank' = n_blank + 1
  /\ \E ok \in BOOLEAN : success' = ok
  /\ pc' = "exit_call"
  /\ UNCHANGED <<cfgVars, idx, sessionVars, open_result, handleVars, probe_ok,
                 now, last_keepalive, ticks, sensors, sensor_data, sendVars,
                 faultVars, sigVars, exit_code>>

\* ------------------------------------------------------- __exit__ / close
\* __exit__ is entered; it is about to call self.close().
ExitCall ==
  /\ pc = "exit_call"
  /\ pc' = "close_check"
  /\ UNCHANGED <<cfgVars, idx, sessionVars, open_result, handleVars, probe_ok,
                 loopVars, writeVars, sendVars, faultVars, sigVars, n_blank,
                 exit_code>>

\* if self.device:
CloseCheck ==
  /\ pc = "close_check"
  /\ pc' = IF device # 0 THEN "close_dev" ELSE "exit_return"
  /\ UNCHANGED <<cfgVars, idx, sessionVars, open_result, handleVars, probe_ok,
                 loopVars, writeVars, sendVars, faultVars, sigVars, n_blank,
                 exit_code>>

\* try: self.device.close()
CloseDev ==
  /\ pc = "close_dev"
  /\ hstate' = CloseHandle(hstate, device)
  /\ close_count' = CountClose(close_count, hstate, device)
  /\ pc' = "close_finally"
  /\ UNCHANGED <<cfgVars, idx, sessionVars, open_result, probe_ok, loopVars,
                 writeVars, sendVars, faultVars, sigVars, n_blank, exit_code>>

\* finally: self.device = None; self.interface_number = None.  A SystemExit
\* raised inside the try goes on once the finally clause is through.
CloseFinally ==
  /\ pc = "close_finally"
  /\ device' = 0
  /\ interface_number' = -1
  /\ IF unwinding = "close"
       THEN /\ pc' = "done"
            /\ exit_code' = 0
       ELSE /\ pc' = "exit_return"
            /\ exit_code' = exit_code
  /\ UNCHANGED <<cfgVars, idx, open_result, handleVars, probe_ok, loopVars,
                 writeVars, sendVars, faultVars, sigVars, n_blank>>

\* __exit__ returns None: a pending SystemExit(0) goes on and ends the
\* process with status 0; otherwise main() returns and the status is 0.
ExitReturn ==
  /\ pc = "exit_return"
  /\ pc' = "done"
  /\ exit_code' = 0
  /\ UNCHANGED <<cfgVars, idx, sessionVars, open_result, handleVars, probe_ok,
                 loopVars, writeVars, sendVars, faultVars, sigVars, n_blank>>

\* ---------------------------------------------------------- signal_handler
\* Positions from which the handler's SystemExit leaves the process without
\* passing through any handler of the program: inside __enter__/open()
\* (outside the inner try) and inside __exit__/close() (outside the try).
EscapingPcs ==
  {"open_enumerate", "open_next", "open_path", "open_probe", "open_assign",
   "open_except", "enter_return", "exit_call", "close_check", "close_finally",
   "exit_return"}

\* Positions inside the body of the with statement.
BodyPcs == {"with_body", "loop_init", "tick", "sleep", "blank"}

\* sys.exit(0) raised where nothing catches it: the process ends, status 0.
SignalEscapes ==
  /\ pc \in EscapingPcs
  /\ signals < MaxSignals
  /\ signals' = signals + 1
  /\ pc' = "done"
  /\ exit_code' = 0
  /\ UNCHANGED <<cfgVars, idx, sessionVars, open_result, handleVars, probe_ok,
                 loopVars, writeVars, sendVars, faultVars, sig_in_loop,
                 unwinding, n_blank>>

\* sys.exit(0) raised in the body of the with statement: neither
\* `except KeyboardInterrupt` nor `except Exception` catches SystemExit, so
\* it reaches the with statement, which calls __exit__.
SignalInBody ==
  /\ pc \in BodyPcs
  /\ signals < MaxSignals
  /\ signals' = signals + 1
  /\ sig_in_loop' = (sig_in_loop \/ pc \in {"tick", "sleep"})
  /\ unwinding' = "body"
  /\ pc' = "exit_call"
  /\ UNCHANGED <<cfgVars, idx, sessionVars, open_result, handleVars, probe_ok,
                 loopVars, writeVars, sendVars, faultVars, n_blank, exit_code>>

\* sys.exit(0) raised inside close()'s try before self.device.close() is
\* called: `except Exception` does not catch it, the finally clause runs.
SignalInClose ==
  /\ pc = "close_dev"
  /\ signals < MaxSignals
  /\ signals' = signals + 1
  /\ unwinding' = "close"
  /\ pc' = "close_finally"
  /\ UNCHANGED <<cfgVars, idx, sessionVars, open_result, handleVars, probe_ok,
                 loopVars, writeVars, sendVars, faultVars, sig_in_loop, n_blank,
                 exit_code>>

\* sys.exit(0) raised inside open()'s inner try: the bare `except: pass`
\* catches the SystemExit, before device.close() was called or after it,
\* and the for loop continues.
SignalSwallowed ==
  /\ pc = "open_except_close"
  /\ signals < MaxSignals
  /\ signals' = signals + 1
  /\ \E closed \in BOOLEAN :
       IF closed
         THEN /\ hstate' = RejectedHandles(hstate, idx)
              /\ close_count' = CountClose(close_count, hstate, idx)
         ELSE UNCHANGED handleVars
  /\ idx' = idx + 1
  /\ pc' = "open_next"
  /\ UNCHANGED <<cfgVars, sessionVars, open_result, probe_ok, loopVars,
                 writeVars, sendVars, faultVars, sig_in_loop, unwinding,
                 n_blank, exit_code>>

Signal == SignalEscapes \/ SignalInBody \/ SignalInClose \/ SignalSwallowed

\* ------------------------------------------------------------ specifications
\* The program's own steps.
Step ==
  \/ OpenEnumerate \/ OpenNext \/ OpenPath \/ OpenProbe \/ OpenAssign
  \/ OpenExcept \/ OpenExceptClose \/ EnterReturn
  \/ WithBody \/ LoopInit \/ Tick \/ Sleep \/ Blank
  \/ ExitCall \/ CloseCheck \/ CloseDev \/ CloseFinally \/ ExitReturn

Next == Step \/ Signal

\* The process with SIGINT/SIGTERM delivered at any position.
Spec == Init /\ [][Next]_vars

\* The process when no signal is delivered.
SpecSeq == Init /\ [][Step]_vars

\* ----------------------------------------- the pure functions on their own
\* find_sensor_by_substring is about to be called on a sensor mapping and a
\* requested substring.
InitFind ==
  /\ pc = "find_call"
  /\ sensors \in SensorMaps
  /\ sensor_substring \in SensorNames \cup {<<>>}
  /\ cmd = "on"
  /\ unit = "c"
  /\ refresh_rate = 1
  /\ devices = <<>>
  /\ sent_temp = 0
  /\ sent_unit = "c"
  /\ Fresh

\* sensor_data = find_sensor_by_substring(sensors, sensor_substring)
FindCall ==
  /\ pc = "find_call"
  /\ sensor_data' = find_sensor_by_substring(sensors, sensor_substring)
  /\ pc' = "find_done"
  /\ UNCHANGED <<cfgVars, idx, sessionVars, open_result, handleVars, probe_ok,
                 now, last_keepalive, ticks, sensors, success, writeVars,
                 sendVars, faultVars, sigVars, n_blank, exit_code>>

SpecFind == InitFind /\ [][FindCall]_vars

\* send_temperature is about to be called with a reading and a unit on an
\* open device.
InitEnc ==
  /\ pc = "enc_call"
  /\ sent_temp \in (0 - TempRange)..TempRange
  /\ sent_unit \in {"c", "f"}
  /\ cmd = "on"
  /\ unit = sent_unit
  /\ refresh_rate = 1
  /\ sensor_substring = DEFAULT_SENSOR_SUBSTR
  /\ devices = <<>>
  /\ sensors = <<>>
  /\ Fresh

\* The report send_temperature(sent_temp, sent_unit) hands to
\* send_feature_report.
EncCall ==
  /\ pc = "enc_call"
  /\ last_report' = TemperatureReport(sent_temp, sent_unit)
  /\ last_write' = "temp"
  /\ pc' = "enc_done"
  /\ UNCHANGED <<cfgVars, idx, sessionVars, open_result, handleVars, probe_ok,
                 loopVars, sendVars, faultVars, sigVars, n_blank, exit_code>>

SpecEnc == InitEnc /\ [][EncCall]_vars

\* =================================================================== claims
\* A step of the loop's try body (Tick).
TickStep == pc = "tick" /\ ticks' = ticks + 1

\* C1: when SIGINT/SIGTERM arrives while the loop is streaming, a blank
\* report is sent and then the handle is closed, each exactly once, no
\* temperature report follows the blank, and the process exits with 0.
\* (Stated for the runs in which that signal is the only one.)
C1_SignalBlanksAndCloses ==
  (pc = "done" /\ sig_in_loop /\ signals = 1) =>
    /\ n_blank = 1
    /\ \A i \in probe_ok : hstate[i] = "closed" /\ close_count[i] = 1
    /\ ~temp_after_blank
    /\ exit_code = 0

\* C2: on each tick a report is sent if the rounded display value differs
\* from the last sent value or if KEEPALIVE_INTERVAL has elapsed since the
\* last send; so an unchanged reading is sent again once the interval has
\* elapsed.
C2_SendOnChangeOrKeepalive ==
  [][TickStep =>
       LET found == sensor_data'.found
           value == Max(0, Min(99, RoundedDisplay(sensor_data'.current, unit)))
           changed == found /\ value # last_sent_value
           elapsed == now - last_send_time >= KEEPALIVE_INTERVAL
       IN  (changed \/ elapsed) =>
             /\ n_temp' = n_temp + 1
             /\ last_send_time' = now
             /\ found => last_sent_value' = value /\ last_write' = "temp"]_vars

\* C2 witness: the same value was sent twice, the second time at least
\* KEEPALIVE_INTERVAL after the first.
C2_Witness ==
  /\ pc = "sleep"
  /\ n_temp >= 2
  /\ sensor_data.found
  /\ last_write = "temp"
  /\ last_sent_value > 0
  /\ last_sent_value = prev_sent_value
  /\ last_send_time = now
  /\ last_send_time - prev_send_time >= KEEPALIVE_INTERVAL

\* C3 (as claimed): once a write of the loop has failed, no later tick sends
\* a temperature report.
C3_WriteFailureStopsLoop == [][write_failed => n_temp' = n_temp]_vars

\* C3 (amended): a failed write does not stop the loop.  Until a signal
\* arrives the process stays in the loop with the handle open, no blank
\* report is sent and the process does not exit; a later tick that finds
\* the sensor sends its reading again.
C3_WriteFailureContinues ==
  [][/\ (write_failed' /\ signals' = 0) =>
          /\ pc' \in {"tick", "sleep"}
          /\ device' # 0
          /\ hstate'[device'] = "open"
          /\ n_blank' = 0
          /\ exit_code' = -1
     /\ (write_failed /\ TickStep /\ sensor_data'.found) =>
          n_temp' = n_temp + 1]_vars

\* C3 witness: after a failed write, a later tick has sent a reading and the
\* write succeeded.
C3_Witness ==
  /\ write_failed
  /\ signals = 0
  /\ pc = "sleep"
  /\ sensor_data.found
  /\ success
  /\ n_temp >= 2

\* C4 (as claimed): once a tick has found no sensor, no later temperature
\* report is sent.
C4_MissingSensorStopsLoop == [][sensor_missing => n_temp' = n_temp]_vars

\* C4 (amended): a tick that finds no sensor does not stop the loop.  It
\* sends the reading 0 (in the configured unit) when KEEPALIVE_INTERVAL has
\* elapsed since last_keepalive, and nothing otherwise; until a signal
\* arrives the process stays in the loop with the handle open, and a later
\* tick that finds the sensor sends its reading.
C4_MissingSensorKeepsAlive ==
  [][/\ (sensor_missing' /\ signals' = 0) =>
          /\ pc' \in {"tick", "sleep"}
          /\ device' # 0
          /\ hstate'[device'] = "open"
     /\ (TickStep /\ ~sensor_data'.found) =>
          IF now - last_keepalive >= KEEPALIVE_INTERVAL
            THEN /\ n_temp' = n_temp + 1
                 /\ last_write' = "keepalive"
                 /\ sent_temp' = 0
                 /\ Decode(last_report') = (IF unit = "f" THEN 32 ELSE 0)
                 /\ At(last_report', SLOT_UNIT) = UnitFlag(unit)
                 /\ last_keepalive' = now
            ELSE /\ n_temp' = n_temp
                 /\ last_report' = last_report
                 /\ last_keepalive' = last_keepalive
     /\ (TickStep /\ sensor_data'.found) =>
          /\ n_temp' = n_temp + 1
          /\ last_keepalive' = last_keepalive]_vars

\* C4 witness: with no sensor found, the loop has sent the fabricated
\* reading 0 degrees Celsius, shown as 32 in Fahrenheit.
C4_Witness ==
  /\ pc = "sleep"
  /\ sensor_missing
  /\ ~sensor_data.found
  /\ last_write = "keepalive"
  /\ unit = "f"
  /\ Decode(last_report) = 32

\* C5: discovery makes the first candidate that accepts the probe the active
\* session; a candidate that was opened and rejected is closed before the
\* next one is tried; when there is no candidate or all are rejected, open
\* fails with no handle open and no session.
C5_Discovery ==
  /\ pc \in {"open_next", "open_path"} =>
       \A j \in 1..(idx - 1) : j <= Len(devices) => hstate[j] # "open"
  /\ (pc = "enter_return" /\ open_result = "true") =>
       /\ device \in probe_ok
       /\ \A j \in probe_ok : j >= device
       /\ hstate[device] = "open"
       /\ interface_number = devices[device].interface_number
       /\ \A j \in 1..Len(devices) : j # device => hstate[j] # "open"
  /\ open_result = "false" =>
       /\ device = 0
       /\ interface_number = -1
       /\ probe_ok = {}
       /\ \A j \in 1..Len(devices) : hstate[j] # "open"
  /\ (probe_ok # {} /\ pc # "open_assign") => open_result = "true"

\* C5 witness: the first candidate was opened and rejected, the second one
\* accepted the probe and is the session.
C5_Witness ==
  /\ pc = "enter_return"
  /\ open_result = "true"
  /\ device = 2
  /\ hstate[1] = "closed"
  /\ hstate[2] = "open"

\* C6: the digits send_temperature places in the report give the rounded
\* display value v when v is in 0..99, 0 when v < 0 and 99 when v > 99, and
\* each is a single digit (the clamp precedes the split).
C6_DigitsEncodeClampedValue ==
  pc = "enc_done" =>
    LET v == RoundedDisplay(sent_temp, sent_unit)
        tens == At(last_report, SLOT_TENS)
        ones == At(last_report, SLOT_ONES)
    IN  /\ tens \in 0..9
        /\ ones \in 0..9
        /\ v \in 0..99 => tens * 10 + ones = v
        /\ v < 0 => tens * 10 + ones = 0
        /\ v > 99 => tens * 10 + ones = 99

\* C6 witness: a Fahrenheit value above 99 was encoded as 99.
C6_Witness ==
  /\ pc = "enc_done"
  /\ sent_unit = "f"
  /\ RoundedDisplay(sent_temp, sent_unit) > 99
  /\ At(last_report, SLOT_TENS) = 9
  /\ At(last_report, SLOT_ONES) = 9

\* C7: every report written (probe, temperature, keep-alive, blank) is 65
\* bytes long, its unit flag byte is 0x00 or 0x01 and each digit slot holds
\* a digit 0..9.
C7_ReportWellFormed ==
  last_write # "none" =>
    /\ Len(last_report) = 65
    /\ At(last_report, 0) = REPORT_ID
    /\ At(last_report, SLOT_UNIT) \in {0, 1}
    /\ At(last_report, SLOT_TENS) \in 0..9
    /\ At(last_report, SLOT_ONES) \in 0..9

\* C7 witness: a Fahrenheit temperature report with both digit slots used.
C7_Witness ==
  /\ last_write = "temp"
  /\ Len(last_report) = 65
  /\ At(last_report, SLOT_UNIT) = 1
  /\ At(last_report, SLOT_TENS) = 3
  /\ At(last_report, SLOT_ONES) = 6

\* Whether the i-th name contains the requested string, case-insensitively.
NameContains(i) ==
  Contains(Lower(sensor_substring), Lower(sensors[i].name))

\* C8 (as claimed): when one name equals the requested string and another
\* merely contains it, the exactly-named sensor is selected whatever the
\* order; otherwise the first name containing the string is selected; when
\* no name contains it the result is not-found.  (Stated for mappings in
\* which every sensor has a reading.)
C8_ExactMatchPreferred ==
  (pc = "find_done" /\ \A i \in 1..Len(sensors) : sensors[i].readings # <<>>) =>
    LET exact == {i \in 1..Len(sensors) : sensors[i].name = sensor_substring}
        containing == {i \in 1..Len(sensors) : NameContains(i)}
    IN  /\ (exact # {} /\ containing \ exact # {}) =>
              sensor_data.found /\ sensor_data.name = sensor_substring
        /\ (exact = {} /\ containing # {}) =>
              /\ sensor_data.found
              /\ \E i \in containing :
                   /\ \A j \in containing : i <= j
                   /\ sensor_data.name = sensors[i].name
        /\ containing = {} => ~sensor_data.found

\* C8 (amended): the first item, in mapping order, whose name contains the
\* requested string case-insensitively and whose list of readings is not
\* empty is selected, with its first reading, whether or not another name
\* equals the string exactly; when there is no such item the result is None.
C8_FirstContainingSelected ==
  pc = "find_done" =>
    LET matching == {i \in 1..Len(sensors) :
                       NameContains(i) /\ sensors[i].readings # <<>>}
    IN  IF matching = {}
          THEN sensor_data = NoSensor
          ELSE /\ sensor_data.found
               /\ \E i \in matching :
                    /\ \A j \in matching : i <= j
                    /\ sensor_data.name = sensors[i].name
                    /\ sensor_data.current = sensors[i].readings[1]

\* C8 witness: a sensor that merely contains the string was selected although
\* a later sensor with a reading is named exactly as requested.
C8_Witness ==
  /\ pc = "find_done"
  /\ sensor_data.found
  /\ sensor_data.name # sensor_substring
  /\ \E i \in 1..Len(sensors) :
       sensors[i].name = sensor_substring /\ sensors[i].readings # <<>>

\* C9: the exit status is 0 on normal completion or interrupt and non-zero
\* when the command fails to open a working device interface.
C9_ExitStatus ==
  pc = "done" =>
    /\ (open_result = "false" /\ signals = 0) => exit_code # 0
    /\ (open_result = "true" \/ signals > 0) => exit_code = 0

\* C10: wherever signals are delivered, every handle the process opened is
\* closed when it exits, and none is closed more than once.
C10_HandlesClosedOnExit ==
  /\ pc = "done" => \A i \in 1..Len(devices) : hstate[i] # "open"
  /\ \A i \in 1..Len(devices) : close_count[i] <= 1

====
